---- MODULE Spec2Model ----
(***************************************************************************)
(* Element construction of the JSX text-generator templating core          *)
(* (src/src/elements.ts): createElement and the three constructors         *)
(* createSentenceElement, createFragmentElement, createTemplateElement.    *)
(*                                                                         *)
(* JavaScript values are records [cls, tag, id]:                           *)
(*   cls  the value class ("string", "number", "boolean", "undefined",     *)
(*        "null", "function", "array", "object", "node");                  *)
(*   tag  the value of the own property `type` of a plain object           *)
(*        ("none" when the object has no such property);                   *)
(*   id   the identity: text of a string, reference of a mapping object,   *)
(*        index in `heap` of an element.                                   *)
(***************************************************************************)
EXTENDS Integers, Sequences, FiniteSets, TLC

VARIABLES heap, maps, defaulted, call, result

vars == <<heap, maps, defaulted, call, result>>

\* ---------------------------------------------------------------- bounds
MaxNodes == 3   \* elements built in one run of Spec
MaxKids  == 1   \* longest child list of a call in Spec
MaxLen   == 3   \* longest child list of the call checked in SpecCall

\* ---------------------------------------------------------------- values
Val(c, t, i) == [cls |-> c, tag |-> t, id |-> i]

StrA      == Val("string", "none", 1)
Num       == Val("number", "none", 42)
False     == Val("boolean", "none", 0)
Undefined == Val("undefined", "none", 0)
Null      == Val("null", "none", 0)
Getter    == Val("function", "none", 1)
DictItem  == Val("array", "none", 1)
PlainObj  == Val("object", "none", 0)
BogusObj  == Val("object", "bogus", 0)
MapObj(r) == Val("object", "none", r)
NodeRef(i) == Val("node", "none", i)

Kinds == {"sentence", "fragment", "template"}

\* typeof child
TypeOf(v) ==
  IF v.cls \in {"null", "array", "object", "node"} THEN "object" ELSE v.cls

\* Array.isArray(child)
IsArray(v) == v.cls = "array"

\* child.type throws a TypeError on null and undefined
IsNullish(v) == v.cls \in {"null", "undefined"}

\* child.type, for a child that is not null or undefined
GetType(v) ==
  IF v.cls = "node" THEN heap[v.id].type
  ELSE IF v.cls = "object" THEN v.tag
  ELSE "none"

\* ---------------------------------------------------------------- allocation
Max(S) == CHOOSE x \in S : \A y \in S : y <= x

UsedRefs == DOMAIN maps \cup {heap[i].childrenRef : i \in DOMAIN heap}

\* the object literal of line 51 and the array of the stored children are
\* fresh objects: references no live object has
NewObject == Max(UsedRefs) + 1
NewArray  == Max(UsedRefs) + 2

\* ---------------------------------------------------------------- results
Thrown(err, i) ==
  [status |-> err, type |-> "none", props |-> Undefined, children |-> <<>>,
   childrenRef |-> 0, at |-> i, invoked |-> 0, validator |-> "none"]

Element(t, props, children) ==
  [status |-> "ok", type |-> t, props |-> props, children |-> children,
   childrenRef |-> NewArray, at |-> 0, invoked |-> 0, validator |-> "none"]

\* ---------------------------------------------------------------- sentence
\* variant: a callable child is rejected instead of dropped
RECURSIVE SentenceFilter_strict(_, _, _)
SentenceFilter_strict(children, i, kept) ==
  IF i > Len(children) THEN [status |-> "ok", children |-> kept, at |-> 0]
  ELSE LET child == children[i] IN
    IF child.cls = "function"
      THEN [status |-> "InvalidChildKind", children |-> <<>>, at |-> i]
    ELSE IF TypeOf(child) # "object" /\ TypeOf(child) # "string"
      THEN SentenceFilter_strict(children, i + 1, kept)
    ELSE IF TypeOf(child) = "object" /\ IsNullish(child)
      THEN [status |-> "TypeError", children |-> <<>>, at |-> i]
    ELSE IF TypeOf(child) = "object" /\ GetType(child) # "fragment"
      THEN [status |-> "InvalidChildKind", children |-> <<>>, at |-> i]
    ELSE SentenceFilter_strict(children, i + 1, Append(kept, child))

RECURSIVE SentenceFilter(_, _, _)
SentenceFilter(children, i, kept) ==
  IF i > Len(children) THEN [status |-> "ok", children |-> kept, at |-> 0]
  ELSE LET child == children[i] IN
    IF TypeOf(child) # "object" /\ TypeOf(child) # "string"
      THEN SentenceFilter(children, i + 1, kept)
    ELSE IF TypeOf(child) = "object" /\ IsNullish(child)
      THEN [status |-> "TypeError", children |-> <<>>, at |-> i]
    ELSE IF TypeOf(child) = "object" /\ GetType(child) # "fragment"
      THEN [status |-> "InvalidChildKind", children |-> <<>>, at |-> i]
    ELSE SentenceFilter(children, i + 1, Append(kept, child))

createSentenceElement(props, children) ==
  LET f == SentenceFilter(children, 1, <<>>) IN
    IF f.status # "ok" THEN Thrown(f.status, f.at)
    ELSE Element("sentence", props, f.children)

\* ---------------------------------------------------------------- fragment
RECURSIVE FragmentCheck(_, _)
FragmentCheck(children, i) ==
  IF i > Len(children) THEN [status |-> "ok", at |-> 0]
  ELSE LET child == children[i] IN
    IF IsNullish(child) THEN [status |-> "TypeError", at |-> i]
    ELSE IF GetType(child) # "template"
      THEN [status |-> "InvalidChildKind", at |-> i]
    ELSE FragmentCheck(children, i + 1)

\* variant: the children are not checked
createFragmentElement_unchecked(props, children) ==
  Element("fragment", props, children)

\* variant: the children are stored in reverse order
createFragmentElement_reversed(props, children) ==
  LET c == FragmentCheck(children, 1) IN
    IF c.status # "ok" THEN Thrown(c.status, c.at)
    ELSE Element("fragment", props,
                 [i \in DOMAIN children |-> children[Len(children) + 1 - i]])

createFragmentElement(props, children) ==
  LET c == FragmentCheck(children, 1) IN
    IF c.status # "ok" THEN Thrown(c.status, c.at)
    ELSE Element("fragment", props, children)

\* ---------------------------------------------------------------- template
RECURSIVE TemplateCheck(_, _)
TemplateCheck(children, i) ==
  IF i > Len(children) THEN [status |-> "ok", at |-> 0]
  ELSE LET child == children[i] IN
    IF TypeOf(child) # "string" /\ TypeOf(child) # "function" /\ ~IsArray(child)
      THEN [status |-> "InvalidChildKind", at |-> i]
    ELSE TemplateCheck(children, i + 1)

\* variant: the callable children are invoked and their results stored
createTemplateElement_eager(props, children) ==
  LET c == TemplateCheck(children, 1) IN
    IF c.status # "ok" THEN Thrown(c.status, c.at)
    ELSE [Element("template", props,
                  [i \in DOMAIN children |->
                     IF children[i].cls = "function" THEN DictItem
                     ELSE children[i]])
            EXCEPT !.invoked =
              Cardinality({i \in DOMAIN children : children[i].cls = "function"})]

createTemplateElement(props, children) ==
  LET c == TemplateCheck(children, 1) IN
    IF c.status # "ok" THEN Thrown(c.status, c.at)
    ELSE Element("template", props, children)

\* ---------------------------------------------------------------- dispatcher
\* variant: props is passed on as it is
propsFallBack_identity(props) == props

\* variant: one empty mapping serves every call without props
propsFallBack_shared(props) == IF IsNullish(props) THEN MapObj(0) ELSE props

\* props == null ? {} : props
propsFallBack(props) == IF IsNullish(props) THEN MapObj(NewObject) ELSE props

\* variant: an unknown type is built as a template
createElement_fallthrough(type, props, children) ==
  CASE type = "sentence" ->
         [createSentenceElement(propsFallBack(props), children)
            EXCEPT !.validator = "sentence"]
    [] type = "fragment" ->
         [createFragmentElement(propsFallBack(props), children)
            EXCEPT !.validator = "fragment"]
    [] OTHER ->
         [createTemplateElement(propsFallBack(props), children)
            EXCEPT !.validator = "template"]

createElement(type, props, children) ==
  CASE type = "sentence" ->
         [createSentenceElement(propsFallBack(props), children)
            EXCEPT !.validator = "sentence"]
    [] type = "fragment" ->
         [createFragmentElement(propsFallBack(props), children)
            EXCEPT !.validator = "fragment"]
    [] type = "template" ->
         [createTemplateElement(propsFallBack(props), children)
            EXCEPT !.validator = "template"]
    [] OTHER -> Thrown("UnknownElementKind", 0)

\* ---------------------------------------------------------------- state machine
InputKinds == Kinds \cup {"bogus"}

\* the mapping object the caller owns before the first call: {a: 1}
CallerMaps == (1 :> {"a"})

NoCall   == [type |-> "none", props |-> Undefined, children |-> <<>>]
NoResult == [status |-> "none", node |-> 0, at |-> 0, invoked |-> 0,
             validator |-> "none"]

NodeRefs == {NodeRef(i) : i \in DOMAIN heap}

ChildLists(V, n) == UNION {[1..k -> V] : k \in 0..n}

\* one call createElement(type, props, ...children)
Construct(type, props, children) ==
  LET r  == createElement(type, props, children)
      id == Len(heap) + 1
  IN /\ result' = [status |-> r.status,
                   node |-> IF r.status = "ok" THEN id ELSE 0,
                   at |-> r.at, invoked |-> r.invoked,
                   validator |-> r.validator]
     /\ IF r.status = "ok"
          THEN /\ heap' = Append(heap, [type |-> r.type, props |-> r.props,
                                        children |-> r.children,
                                        childrenRef |-> r.childrenRef])
               /\ maps' = IF r.props.id \in DOMAIN maps THEN maps
                          ELSE maps @@ (r.props.id :> {})
               /\ defaulted' = IF IsNullish(props) THEN defaulted \cup {id}
                               ELSE defaulted
          ELSE UNCHANGED <<heap, maps, defaulted>>

\* --- Spec: a caller building elements out of earlier elements
HeapValues == {StrA, Num} \cup NodeRefs

HeapProps == {Undefined} \cup {MapObj(r) : r \in DOMAIN maps}

Init ==
  /\ heap = <<>>
  /\ maps = CallerMaps
  /\ defaulted = {}
  /\ call = NoCall
  /\ result = NoResult

\* A call that throws returns nothing and leaves every element as it was:
\* the runs of Spec are the sequences of calls that return an element.
Build ==
  /\ Len(heap) < MaxNodes
  /\ \E type \in InputKinds, props \in HeapProps,
        children \in ChildLists(HeapValues, MaxKids) :
       /\ Construct(type, props, children)
       /\ result'.status = "ok"
  /\ UNCHANGED call

Next == Build

Spec == Init /\ [][Next]_vars

\* --- SpecCall: one call of createElement on every input of a bounded set,
\* in the state after  t1 = createElement('template', undefined, 'a'),
\* t2 = createElement('template', m, getter), f = createElement('fragment',
\* null, t1, t2), createElement('sentence', m, f, 'a')  with m = {a: 1}
PresetHeap ==
  << [type |-> "template", props |-> MapObj(2), children |-> <<StrA>>,
      childrenRef |-> 3],
     [type |-> "template", props |-> MapObj(1), children |-> <<Getter>>,
      childrenRef |-> 5],
     [type |-> "fragment", props |-> MapObj(6),
      children |-> <<NodeRef(1), NodeRef(2)>>, childrenRef |-> 7],
     [type |-> "sentence", props |-> MapObj(1),
      children |-> <<NodeRef(3), StrA>>, childrenRef |-> 9] >>

PresetMaps == CallerMaps @@ (2 :> {}) @@ (6 :> {})

CallValues ==
  {StrA, Num, False, Undefined, Null, Getter, DictItem, PlainObj, BogusObj}
    \cup {NodeRef(i) : i \in DOMAIN PresetHeap}

InitCall ==
  /\ heap = PresetHeap
  /\ maps = PresetMaps
  /\ defaulted = {1, 3}
  /\ result = NoResult
  /\ call \in [type : InputKinds,
               props : {Undefined, Null} \cup {MapObj(r) : r \in DOMAIN PresetMaps},
               children : ChildLists(CallValues, MaxLen)]

Apply ==
  /\ result = NoResult
  /\ Construct(call.type, call.props, call.children)
  /\ UNCHANGED call

NextCall == Apply

SpecCall == InitCall /\ [][NextCall]_vars

\* ---------------------------------------------------------------- vocabulary
Done    == result.status # "none"
Ok      == result.status = "ok"
Created == heap[result.node]
NoNode  == result.node = 0 /\ heap = PresetHeap /\ maps = PresetMaps

IsNode(v)        == v.cls = "node"
IsNodeOf(v, k)   == v.cls = "node" /\ heap[v.id].type = k
IsString(v)      == v.cls = "string"
IsCallable(v)    == v.cls = "function"
IsSequence(v)    == v.cls = "array"
IsStray(v)       == v.cls \in {"number", "boolean", "undefined", "function"}

\* the child-kind a parent of kind k expects
Expected(k, v) ==
  CASE k = "sentence" -> IsNodeOf(v, "fragment") \/ IsString(v)
    [] k = "fragment" -> IsNodeOf(v, "template")
    [] k = "template" -> IsString(v) \/ IsCallable(v) \/ IsSequence(v)

AllExpected(k, cs) == \A i \in DOMAIN cs : Expected(k, cs[i])

\* index of the first child satisfying P, 0 when there is none
First(cs, P(_)) ==
  IF \E i \in DOMAIN cs : P(cs[i])
    THEN CHOOSE i \in DOMAIN cs : P(cs[i]) /\ \A j \in 1..(i - 1) : ~P(cs[j])
    ELSE 0

\* ---------------------------------------------------------------- C1
\* C1: in every state reached by createElement calls whose element children
\* are elements returned by earlier calls, every element child of a sentence
\* is a fragment, every child of a fragment is a template element, and no
\* child of a template is an element.
C1_Hierarchy ==
  \A n \in DOMAIN heap : \A i \in DOMAIN heap[n].children :
    LET c == heap[n].children[i] IN
      /\ heap[n].type = "sentence" => (IsNode(c) => IsNodeOf(c, "fragment"))
      /\ heap[n].type = "fragment" => IsNodeOf(c, "template")
      /\ heap[n].type = "template" => ~IsNode(c)

\* a sentence holding a fragment that holds a template with a text child
C1_Witness ==
  \E s, f, t \in DOMAIN heap :
    /\ heap[s].type = "sentence" /\ heap[f].type = "fragment"
    /\ heap[t].type = "template"
    /\ \E i \in DOMAIN heap[s].children : heap[s].children[i] = NodeRef(f)
    /\ \E i \in DOMAIN heap[f].children : heap[f].children[i] = NodeRef(t)
    /\ heap[t].children = <<StrA>>

\* ---------------------------------------------------------------- C2
\* a child on which construction of a parent of kind k fails: an unexpected
\* child, other than the non-object non-string children a sentence drops
Rejected(k, v) == ~Expected(k, v) /\ ~(k = "sentence" /\ IsStray(v))

C3_UnknownKind ==
  (Done /\ call.type \notin Kinds) =>
    /\ result.status = "UnknownElementKind"
    /\ NoNode
    /\ defaulted = {1, 3}
    /\ result.validator = "none"

\* an unknown type with absent props and children no validator accepts
C3_Witness ==
  /\ Done /\ call.type = "bogus" /\ call.props = Null
  /\ call.children = <<Null, PlainObj, NodeRef(4)>>
  /\ result.status = "UnknownElementKind"

\* ---------------------------------------------------------------- C4
\* C4 (as claimed): a sentence built from fragments, strings and stray values
\* such as null, false and numbers does not fail, and its children are
\* exactly the fragments and strings of the input.
C4_Claim ==
  (Done /\ call.type = "sentence"
     /\ \A i \in DOMAIN call.children :
          \/ Expected("sentence", call.children[i])
          \/ call.children[i].cls \in {"null", "boolean", "number"}) =>
    /\ Ok
    /\ Created.children =
         SelectSeq(call.children, LAMBDA v : Expected("sentence", v))

\* ---------------------------------------------------------------- C5
\* C5 (as claimed): a fragment with a child that is not a template element
\* (a string, a number, null, undefined, a sentence, a fragment) fails with
\* InvalidChildKind at the first such child and builds no element.
C5_Claim ==
  (Done /\ call.type = "fragment"
     /\ ~AllExpected("fragment", call.children)) =>
    /\ result.status = "InvalidChildKind"
    /\ result.at = First(call.children, LAMBDA v : ~Expected("fragment", v))
    /\ NoNode

\* ---------------------------------------------------------------- C6
\* C6: a successful createElement returns an element of the requested type;
\* the children of a fragment or a template are the input sequence, and the
\* children of a sentence are the retained input children in input order.
C6_Order ==
  (Ok /\ call.type \in Kinds) =>
    /\ Created.type = call.type
    /\ call.type \in {"fragment", "template"} =>
         Created.children = call.children
    /\ call.type = "sentence" =>
         Created.children =
           SelectSeq(call.children, LAMBDA v : Expected("sentence", v))

\* a fragment built from the two templates in the order t2, t1
C6_Witness ==
  /\ Ok /\ call.type = "fragment"
  /\ call.children = <<NodeRef(2), NodeRef(1)>>
  /\ Created.children = <<NodeRef(2), NodeRef(1)>>

\* ---------------------------------------------------------------- C7
\* C7: a successful createElement with props omitted or null returns an
\* element whose props is an empty mapping; with a mapping supplied, the
\* element's props is that mapping, its contents unchanged.
C7_Props ==
  (Ok /\ call.type \in Kinds) =>
    /\ Created.props.cls = "object"
    /\ Created.props.id \in DOMAIN maps
    /\ IsNullish(call.props) => maps[Created.props.id] = {}
    /\ ~IsNullish(call.props) =>
         /\ Created.props = call.props
         /\ maps[call.props.id] = PresetMaps[call.props.id]

\* an element built with props null owns a new, empty mapping
C7_Witness ==
  /\ Ok /\ call.props = Null
  /\ Created.props.id \notin DOMAIN PresetMaps
  /\ maps[Created.props.id] = {}

\* ---------------------------------------------------------------- C8
\* C8: a template is built exactly when every child is a string, a callable
\* or a sequence, and fails with InvalidChildKind otherwise; no callable
\* child is invoked, and the stored children are the input values.
C8_Template ==
  (Done /\ call.type = "template") =>
    /\ Ok <=> AllExpected("template", call.children)
    /\ ~Ok => (result.status = "InvalidChildKind" /\ NoNode)
    /\ result.invoked = 0
    /\ Ok => Created.children = call.children

\* the template ['text', getter, dictionaryItem]
C8_Witness ==
  /\ Ok /\ call.type = "template"
  /\ call.children = <<StrA, Getter, DictItem>>
  /\ Created.children = <<StrA, Getter, DictItem>>

\* ---------------------------------------------------------------- C9
\* C9 (as claimed): no two elements share their props mapping or their
\* children sequence, whatever the caller passes.
C9_Claim ==
  \A i, j \in DOMAIN heap : i # j =>
    /\ heap[i].props # heap[j].props
    /\ heap[i].childrenRef # heap[j].childrenRef

\* C9 (amended): no two elements share their children sequence, and an
\* element built with props omitted or null shares its props mapping with no
\* element built before it; a supplied mapping is stored as it is, so two
\* elements share props when the caller passes the later one a mapping an
\* earlier one holds.
C9_Amended ==
  \A i, j \in DOMAIN heap : i < j =>
    /\ heap[i].childrenRef # heap[j].childrenRef
    /\ heap[i].childrenRef # heap[j].props.id
    /\ heap[j].childrenRef # heap[i].props.id
    /\ j \in defaulted => heap[i].props # heap[j].props

\* two elements built with props omitted, and a third sharing a supplied one
C9_Witness ==
  /\ Len(heap) = 3
  /\ defaulted = {1, 2}
  /\ heap[1].props # heap[2].props
  /\ heap[3].props = heap[1].props

\* ---------------------------------------------------------------- C10
\* C10: the children of a sentence are strings and fragments only; a callable
\* child is dropped, not rejected, and a list of nothing but children that
\* are neither objects nor strings gives a sentence without children.
C10_Sentence ==
  (Done /\ call.type = "sentence") =>
    /\ Ok => \A i \in DOMAIN Created.children :
               Expected("sentence", Created.children[i])
    /\ (\A i \in DOMAIN call.children :
          IsCallable(call.children[i]) \/ Expected("sentence", call.children[i]))
         => (Ok /\ \A i \in DOMAIN Created.children :
                     ~IsCallable(Created.children[i]))
    /\ (\A i \in DOMAIN call.children : IsStray(call.children[i]))
         => (Ok /\ Created.children = <<>>)

\* a sentence built from callables and a number only
C10_Witness ==
  /\ Ok /\ call.type = "sentence"
  /\ call.children = <<Getter, Num, Getter>>
  /\ Created.children = <<>>
====
